---- MODULE Spec2Model ----
(***************************************************************************)
(* Model of examples/09_urdf_visualizer.py: the state shared by the        *)
(* callbacks of main() (gui_joints, initial_angles, the dropdown, the      *)
(* sliders, the scene) and the callbacks themselves: update_robot_model,   *)
(* the slider on_update lambda and the Reset button's on_click handler.    *)
(*                                                                         *)
(* Angles are integers counted in ticks of pi/6, so that onp.pi is the     *)
(* integer Pi.  Joint limits are even numbers of ticks: (lower+upper)/2.0  *)
(* is then exact.                                                          *)
(***************************************************************************)
EXTENDS Integers, Sequences, FiniteSets, TLC

VARIABLES
    mainPc,          \* position of main(): "setup" or "idle" (the sleep loop)
    dropdown,        \* robot_model_name.value
    scene,           \* set of ViserUrdf ids whose meshes are in the scene
    modals,          \* number of open "Loading URDF..." modals
    urdfs,           \* every ViserUrdf constructed: its robot, the last cfg
                     \* given to update_cfg, the sliders existing at that call
    sliders,         \* every slider created by server.gui.add_slider
    gui_joints,      \* the list gui_joints (slider ids)
    initial_angles,  \* the list initial_angles
    calls,           \* the executions of update_robot_model, one per worker
    nEvents,         \* GUI events delivered so far (bounded)
    nBusy,           \* those delivered while a callback was running (bounded)
    last,            \* what the most recent step did (history)
    overlapped,      \* some update_robot_model started while another ran
    limit_in,        \* a (lower, upper) pair handed to the slider arithmetic
    slider_args      \* the (min, max, initial_value) computed from limit_in

vars == <<mainPc, dropdown, scene, modals, urdfs, sliders, gui_joints,
          initial_angles, calls, nEvents, nBusy, last, overlapped,
          limit_in, slider_args>>

guiVars == <<mainPc, dropdown, scene, modals, urdfs, sliders, gui_joints,
             initial_angles, calls, nEvents, nBusy, last, overlapped>>

limitVars == <<limit_in, slider_args>>

\* onp.pi, in ticks of pi/6.
Pi == 6

\* Bounds of the model.
MaxEvents == 3
MaxBusyEvents == 1
MaxWorkers == 2
MaxLimit == 4

\* Optional[float]: None is the empty tuple, a number x is <<x>>.
None == <<>>

Some(x) == <<x>>

\* The robots of the dropdown (a subset of ROBOT_MODEL_LIST, in its order).
ROBOT_MODEL_LIST == <<"panda_description", "ur10_description", "cassie_description">>

Robots == {ROBOT_MODEL_LIST[i] : i \in 1..Len(ROBOT_MODEL_LIST)}

\* What urdf.get_actuated_joint_limits() reports for a robot: the actuated
\* joints in order, each with its (lower, upper) pair, either possibly None.
ActuatedJointLimits(robot) ==
    CASE robot = "panda_description" ->
           << [name |-> "panda_joint1", lower |-> Some(-4), upper |-> Some(4)],
              [name |-> "panda_joint2", lower |-> Some(2), upper |-> Some(8)] >>
      [] robot = "ur10_description" ->
           << [name |-> "shoulder_pan_joint", lower |-> Some(-8), upper |-> Some(-2)] >>
      [] OTHER ->
           << [name |-> "hip_abduction_left", lower |-> None, upper |-> Some(2)],
              [name |-> "hip_rotation_left", lower |-> Some(0), upper |-> None] >>

\* lower = lower if lower is not None else -onp.pi
Lower(lo) == IF lo # None THEN lo[1] ELSE -Pi

\* upper = upper if upper is not None else onp.pi
Upper(up) == IF up # None THEN up[1] ELSE Pi

\* A plausible slip in the initial angle: "or" for "and".
InitialAngleOr(lower, upper) ==
    IF lower < 0 \/ upper > 0 THEN 0 ELSE (lower + upper) \div 2

\* initial_angle = 0.0 if lower < 0 and upper > 0 else (lower + upper) / 2.0
InitialAngle(lower, upper) ==
    IF lower < 0 /\ upper > 0 THEN 0 ELSE (lower + upper) \div 2

\* The arguments of server.gui.add_slider for one reported joint.
SliderFor(joint, u) ==
    LET lower == Lower(joint.lower)
        upper == Upper(joint.upper)
    IN  [label |-> joint.name, min |-> lower, max |-> upper,
         value |-> InitialAngle(lower, upper),
         initial |-> InitialAngle(lower, upper),
         urdf |-> u, removed |-> 0, cb |-> FALSE]

\* [gui.value for gui in gui_joints], read from the slider table sl.
JointValues(sl) == [i \in 1..Len(gui_joints) |-> sl[gui_joints[i]].value]

Workers == 1..MaxWorkers

IdleCall == [pc |-> "idle", robot_name |-> "", urdf |-> 0, idx |-> 0,
             slider |-> 0, start |-> <<>>]

NoStep == [op |-> "none", urdf |-> 0, slider |-> 0, vec |-> <<>>, start |-> <<>>]

Quiet == \A t \in Workers : calls[t].pc = "idle"

Step(op) == [NoStep EXCEPT !.op = op]

\* The model delivers MaxEvents GUI events, MaxBusyEvents of them while a
\* callback is running.
Deliverable ==
    /\ nEvents < MaxEvents
    /\ ~Quiet => nBusy < MaxBusyEvents

Delivered ==
    /\ nEvents' = nEvents + 1
    /\ nBusy' = IF Quiet THEN nBusy ELSE nBusy + 1

Init ==
    /\ mainPc = "setup"
    /\ dropdown = ROBOT_MODEL_LIST[1]
    /\ scene = {}
    /\ modals = 0
    /\ urdfs = <<>>
    /\ sliders = <<>>
    /\ gui_joints = <<>>
    /\ initial_angles = <<>>
    /\ calls = [t \in Workers |-> IdleCall]
    /\ nEvents = 0 /\ nBusy = 0
    /\ last = NoStep
    /\ overlapped = FALSE
    /\ limit_in = <<None, None>>
    /\ slider_args = None

\* main(): the dropdown and the Reset button are created and their callbacks
\* registered; main then sleeps forever.
MainSetup ==
    /\ mainPc = "setup"
    /\ mainPc' = "idle"
    /\ last' = Step("setup")
    /\ UNCHANGED <<dropdown, scene, modals, urdfs, sliders, gui_joints,
                   initial_angles, calls, nEvents, nBusy, overlapped>>
    /\ UNCHANGED limitVars

\* The worker that runs the next callback: the first free one.
FreeWorker(t) ==
    /\ calls[t].pc = "idle"
    /\ \A w \in Workers : w < t => calls[w].pc # "idle"

\* The dropdown's value changes to r; its on_update callback is handed to
\* worker t.
DropdownUpdate(t, r) ==
    /\ mainPc = "idle"
    /\ FreeWorker(t)
    /\ Deliverable
    /\ r # dropdown
    /\ dropdown' = r
    /\ Delivered
    /\ calls' = [calls EXCEPT ![t] = [IdleCall EXCEPT !.pc = "lambda"]]
    /\ overlapped' = (overlapped \/ ~Quiet)
    /\ last' = Step("dropdown")
    /\ UNCHANGED <<mainPc, scene, modals, urdfs, sliders, gui_joints,
                   initial_angles>>
    /\ UNCHANGED limitVars

\* lambda _: update_robot_model(robot_model_name.value): the value is read
\* when the callback runs.
Lambda(t) ==
    /\ calls[t].pc = "lambda"
    /\ calls' = [calls EXCEPT ![t].pc = "begin",
                              ![t].robot_name = dropdown,
                              ![t].start = gui_joints]
    /\ last' = Step("step")
    /\ UNCHANGED <<mainPc, dropdown, scene, modals, urdfs, sliders, gui_joints,
                   initial_angles, nEvents, nBusy, overlapped>>
    /\ UNCHANGED limitVars

\* server.scene.reset(), then the loading modal is opened.
BeginLoad(t) ==
    /\ calls[t].pc = "begin"
    /\ scene' = {}
    /\ modals' = modals + 1
    /\ calls' = [calls EXCEPT ![t].pc = "load"]
    /\ last' = Step("step")
    /\ UNCHANGED <<mainPc, dropdown, urdfs, sliders, gui_joints,
                   initial_angles, nEvents, nBusy, overlapped>>
    /\ UNCHANGED limitVars

\* load_robot_description and ViserUrdf(...) succeed: the meshes are added to
\* the scene, and the modal is closed.
LoadUrdf(t) ==
    /\ calls[t].pc = "load"
    /\ LET u == Len(urdfs) + 1
           n == Len(ActuatedJointLimits(calls[t].robot_name))
       IN  /\ urdfs' = Append(urdfs, [robot |-> calls[t].robot_name,
                                     cfg |-> [i \in 1..n |-> 0],
                                     nSliders |-> 0, applied |-> FALSE])
           /\ scene' = scene \cup {u}
           /\ calls' = [calls EXCEPT ![t].pc = "remove", ![t].urdf = u,
                                     ![t].idx = 1]
    /\ modals' = modals - 1
    /\ last' = Step("step")
    /\ UNCHANGED <<mainPc, dropdown, sliders, gui_joints,
                   initial_angles, nEvents, nBusy, overlapped>>
    /\ UNCHANGED limitVars

\* load_robot_description or ViserUrdf(...) raises: the exception leaves
\* update_robot_model and ends the callback.
LoadRaises(t) ==
    /\ calls[t].pc = "load"
    /\ calls' = [calls EXCEPT ![t] = IdleCall]
    /\ last' = [Step("raised") EXCEPT !.start = calls[t].start]
    /\ UNCHANGED <<mainPc, dropdown, scene, modals, urdfs, sliders, gui_joints,
                   initial_angles, nEvents, nBusy, overlapped>>
    /\ UNCHANGED limitVars

\* A slip in the removal loop: the slider is skipped, not removed.
RemoveSliderSkip(t) ==
    /\ calls[t].pc = "remove"
    /\ calls[t].idx <= Len(gui_joints)
    /\ calls' = [calls EXCEPT ![t].idx = @ + 1]
    /\ last' = Step("step")
    /\ UNCHANGED <<mainPc, dropdown, scene, modals, urdfs, sliders, gui_joints,
                   initial_angles, nEvents, nBusy, overlapped>>
    /\ UNCHANGED limitVars

\* for gui_joint in gui_joints: gui_joint.remove()  (one iteration; the list
\* iterator compares its index with the list's current length)
RemoveSlider(t) ==
    /\ calls[t].pc = "remove"
    /\ calls[t].idx <= Len(gui_joints)
    /\ sliders' = [sliders EXCEPT ![gui_joints[calls[t].idx]].removed = @ + 1]
    /\ calls' = [calls EXCEPT ![t].idx = @ + 1]
    /\ last' = Step("step")
    /\ UNCHANGED <<mainPc, dropdown, scene, modals, urdfs, gui_joints,
                   initial_angles, nEvents, nBusy, overlapped>>
    /\ UNCHANGED limitVars

\* The removal loop ends: the iterator is exhausted.
RemoveExit(t) ==
    /\ calls[t].pc = "remove"
    /\ calls[t].idx > Len(gui_joints)
    /\ calls' = [calls EXCEPT ![t].pc = "clear"]
    /\ last' = Step("step")
    /\ UNCHANGED <<mainPc, dropdown, scene, modals, urdfs, sliders, gui_joints,
                   initial_angles, nEvents, nBusy, overlapped>>
    /\ UNCHANGED limitVars

\* A slip: gui_joints is not cleared.
ClearJointsKeep(t) ==
    /\ calls[t].pc = "clear"
    /\ calls' = [calls EXCEPT ![t].pc = "create", ![t].idx = 1]
    /\ last' = Step("step")
    /\ UNCHANGED <<mainPc, dropdown, scene, modals, urdfs, sliders, gui_joints,
                   initial_angles, nEvents, nBusy, overlapped>>
    /\ UNCHANGED limitVars

\* gui_joints.clear(); the loop over get_actuated_joint_limits().items() starts.
ClearJoints(t) ==
    /\ calls[t].pc = "clear"
    /\ gui_joints' = <<>>
    /\ calls' = [calls EXCEPT ![t].pc = "create", ![t].idx = 1]
    /\ last' = Step("step")
    /\ UNCHANGED <<mainPc, dropdown, scene, modals, urdfs, sliders,
                   initial_angles, nEvents, nBusy, overlapped>>
    /\ UNCHANGED limitVars

\* One iteration, up to server.gui.add_slider(...): the slider exists in the
\* GUI with its initial value.
AddSlider(t) ==
    /\ calls[t].pc = "create"
    /\ LET joint == ActuatedJointLimits(calls[t].robot_name)[calls[t].idx]
       IN  sliders' = Append(sliders, SliderFor(joint, calls[t].urdf))
    /\ calls' = [calls EXCEPT ![t].pc = "on_update", ![t].slider = Len(sliders) + 1]
    /\ last' = Step("step")
    /\ UNCHANGED <<mainPc, dropdown, scene, modals, urdfs, gui_joints,
                   initial_angles, nEvents, nBusy, overlapped>>
    /\ UNCHANGED limitVars

\* slider.on_update(lambda _: urdf.update_cfg(...)): the callback is registered.
OnUpdate(t) ==
    /\ calls[t].pc = "on_update"
    /\ sliders' = [sliders EXCEPT ![calls[t].slider].cb = TRUE]
    /\ calls' = [calls EXCEPT ![t].pc = "append"]
    /\ last' = Step("step")
    /\ UNCHANGED <<mainPc, dropdown, scene, modals, urdfs, gui_joints,
                   initial_angles, nEvents, nBusy, overlapped>>
    /\ UNCHANGED limitVars

\* gui_joints.append(slider)
AppendSlider(t) ==
    /\ calls[t].pc = "append"
    /\ gui_joints' = Append(gui_joints, calls[t].slider)
    /\ calls' = [calls EXCEPT ![t].pc = "append_angle"]
    /\ last' = Step("step")
    /\ UNCHANGED <<mainPc, dropdown, scene, modals, urdfs, sliders,
                   initial_angles, nEvents, nBusy, overlapped>>
    /\ UNCHANGED limitVars

\* initial_angles.append(initial_angle); the loop goes on or ends.
AppendAngle(t) ==
    /\ calls[t].pc = "append_angle"
    /\ initial_angles' = Append(initial_angles, sliders[calls[t].slider].initial)
    /\ calls' = [calls EXCEPT
         ![t].idx = @ + 1,
         ![t].pc = IF calls[t].idx + 1 > Len(ActuatedJointLimits(calls[t].robot_name))
                   THEN "apply" ELSE "create"]
    /\ last' = Step("step")
    /\ UNCHANGED <<mainPc, dropdown, scene, modals, urdfs, sliders, gui_joints,
                   nEvents, nBusy, overlapped>>
    /\ UNCHANGED limitVars

\* urdf.update_cfg(vec) on ViserUrdf u, with the sliders of table sl existing.
UpdateCfg(ur, u, vec, sl) ==
    [ur EXCEPT ![u].cfg = vec,
               ![u].nSliders = Cardinality({s \in 1..Len(sl) : sl[s].urdf = u}),
               ![u].applied = TRUE]

\* A slip in the last line: the zero vector is applied, not the sliders' values.
ApplyZero(t) ==
    /\ calls[t].pc = "apply"
    /\ urdfs' = UpdateCfg(urdfs, calls[t].urdf,
                          [i \in 1..Len(gui_joints) |-> 0], sliders)
    /\ calls' = [calls EXCEPT ![t] = IdleCall]
    /\ last' = [op |-> "update_done", urdf |-> calls[t].urdf, slider |-> 0,
                vec |-> [i \in 1..Len(gui_joints) |-> 0], start |-> calls[t].start]
    /\ UNCHANGED <<mainPc, dropdown, scene, modals, sliders, gui_joints,
                   initial_angles, nEvents, nBusy, overlapped>>
    /\ UNCHANGED limitVars

\* Apply initial joint angles:
\* urdf.update_cfg(onp.array([gui.value for gui in gui_joints])); the call returns.
Apply(t) ==
    /\ calls[t].pc = "apply"
    /\ urdfs' = UpdateCfg(urdfs, calls[t].urdf, JointValues(sliders), sliders)
    /\ calls' = [calls EXCEPT ![t] = IdleCall]
    /\ last' = [op |-> "update_done", urdf |-> calls[t].urdf, slider |-> 0,
                vec |-> JointValues(sliders), start |-> calls[t].start]
    /\ UNCHANGED <<mainPc, dropdown, scene, modals, sliders, gui_joints,
                   initial_angles, nEvents, nBusy, overlapped>>
    /\ UNCHANGED limitVars

\* The on_update lambda of slider s:
\* urdf.update_cfg(onp.array([gui.value for gui in gui_joints])), urdf being
\* the ViserUrdf of the call that created s.  Nothing runs before on_update
\* has registered it.
SliderCallback(sl, ur, s) ==
    IF sl[s].cb THEN UpdateCfg(ur, sl[s].urdf, JointValues(sl), sl) ELSE ur

\* The user moves slider s to v: the value changes and the callback runs.
SliderUpdate(s, v) ==
    /\ mainPc = "idle"
    /\ Deliverable
    /\ s \in 1..Len(sliders)
    /\ sliders[s].removed = 0
    /\ v \in {sliders[s].min, sliders[s].max}
    /\ v # sliders[s].value
    /\ Delivered
    /\ LET sl == [sliders EXCEPT ![s].value = v]
       IN  /\ sliders' = sl
           /\ urdfs' = SliderCallback(sl, urdfs, s)
           /\ last' = IF sl[s].cb
                      THEN [op |-> "on_update", urdf |-> sl[s].urdf, slider |-> s,
                            vec |-> JointValues(sl), start |-> <<>>]
                      ELSE Step("moved")
    /\ UNCHANGED <<mainPc, dropdown, scene, modals, gui_joints,
                   initial_angles, calls, overlapped>>
    /\ UNCHANGED limitVars

Min(a, b) == IF a <= b THEN a ELSE b

\* for g, initial_angle in zip(gui_joints, initial_angles):
\*     g.value = initial_angle
\* from pair k on; assigning g.value runs g's update callback.  The result is
\* the pair <<slider table, ViserUrdf table>>.
RECURSIVE ResetLoop(_, _, _)
ResetLoop(k, sl, ur) ==
    IF k > Min(Len(gui_joints), Len(initial_angles))
    THEN <<sl, ur>>
    ELSE LET sl2 == [sl EXCEPT ![gui_joints[k]].value = initial_angles[k]]
         IN  ResetLoop(k + 1, sl2, SliderCallback(sl2, ur, gui_joints[k]))

\* The Reset button is clicked.
ResetClick ==
    /\ mainPc = "idle"
    /\ Deliverable
    /\ Delivered
    /\ LET res == ResetLoop(1, sliders, urdfs)
       IN  /\ sliders' = res[1]
           /\ urdfs' = res[2]
    /\ last' = Step("reset")
    /\ UNCHANGED <<mainPc, dropdown, scene, modals, gui_joints,
                   initial_angles, calls, overlapped>>
    /\ UNCHANGED limitVars

\* One step of the execution of update_robot_model on worker t.
WorkerStep(t) ==
    \/ Lambda(t)
    \/ BeginLoad(t)
    \/ LoadUrdf(t)
    \/ LoadRaises(t)
    \/ RemoveSlider(t)
    \/ RemoveExit(t)
    \/ ClearJoints(t)
    \/ AddSlider(t)
    \/ OnUpdate(t)
    \/ AppendSlider(t)
    \/ AppendAngle(t)
    \/ Apply(t)

\* Callbacks run one at a time: an event is handled when no callback runs.
Next ==
    \/ MainSetup
    \/ \E t \in Workers, r \in Robots : Quiet /\ DropdownUpdate(t, r)
    \/ \E s \in 1..Len(sliders), v \in -2 * MaxLimit..2 * MaxLimit :
          Quiet /\ SliderUpdate(s, v)
    \/ Quiet /\ ResetClick
    \/ \E t \in Workers : WorkerStep(t)

Spec == Init /\ [][Next]_vars

\* Callbacks run on a pool of workers: an event is handled at any moment, also
\* while update_robot_model runs.
NextOverlap ==
    \/ MainSetup
    \/ \E t \in Workers, r \in Robots : DropdownUpdate(t, r)
    \/ \E s \in 1..Len(sliders), v \in -2 * MaxLimit..2 * MaxLimit :
          SliderUpdate(s, v)
    \/ ResetClick
    \/ \E t \in Workers : WorkerStep(t)

SpecOverlap == Init /\ [][NextOverlap]_vars

\* The slider arithmetic alone, on every (lower, upper) pair of the bounded
\* set of limits, None included.
LimitValues == {Some(2 * k) : k \in -MaxLimit..MaxLimit} \cup {None}

InitLimits ==
    /\ mainPc = "setup"
    /\ dropdown = ROBOT_MODEL_LIST[1]
    /\ scene = {}
    /\ modals = 0
    /\ urdfs = <<>>
    /\ sliders = <<>>
    /\ gui_joints = <<>>
    /\ initial_angles = <<>>
    /\ calls = [t \in Workers |-> IdleCall]
    /\ nEvents = 0 /\ nBusy = 0
    /\ last = NoStep
    /\ overlapped = FALSE
    /\ limit_in \in LimitValues \X LimitValues
    /\ slider_args = None

\* The body of the loop up to add_slider, for the pair limit_in.
ComputeSliderArgs ==
    /\ slider_args = None
    /\ slider_args' = Some(SliderFor([name |-> "joint", lower |-> limit_in[1],
                                      upper |-> limit_in[2]], 0))
    /\ UNCHANGED limit_in
    /\ UNCHANGED guiVars

NextLimits == ComputeSliderArgs

SpecLimits == InitLimits /\ [][NextLimits]_vars

(***************************************************************************)
(* The claims.                                                             *)
(***************************************************************************)

\* The joints get_actuated_joint_limits() reports for ViserUrdf u.
JointsOf(u) == ActuatedJointLimits(urdfs[u].robot)

InGuiJoints(s) == \E i \in 1..Len(gui_joints) : gui_joints[i] = s

\* C1: when update_robot_model has just completed, gui_joints holds exactly
\* one slider per actuated joint of the robot it loaded: the same count, the
\* same order, each slider labelled with its joint's name, none twice.
C1_OneSliderPerJoint ==
    last.op = "update_done" =>
        LET J == JointsOf(last.urdf)
        IN  /\ Len(gui_joints) = Len(J)
            /\ \A i \in 1..Len(J) : sliders[gui_joints[i]].label = J[i].name
            /\ \A i, j \in 1..Len(gui_joints) :
                   gui_joints[i] = gui_joints[j] => i = j

\* A later selection has completed, for a robot with fewer joints than the
\* robot selected before it.
C1_Witness ==
    /\ last.op = "update_done"
    /\ Len(last.start) = 2
    /\ Len(gui_joints) = 1

\* C2: whenever a slider's on_update callback has just run, the vector it
\* passed to update_cfg has one entry per actuated joint of the robot of its
\* ViserUrdf, entry i being the value of the slider of joint i.
C2_CallbackVectorMatchesRobot ==
    last.op = "on_update" =>
        LET J == JointsOf(last.urdf)
        IN  /\ Len(last.vec) = Len(J)
            /\ \A i \in 1..Len(J) :
                   \E s \in 1..Len(sliders) :
                       /\ sliders[s].urdf = last.urdf
                       /\ sliders[s].label = J[i].name
                       /\ last.vec[i] = sliders[s].value

C4_ResetRestoresInitialAngles ==
    last.op = "reset" =>
        \A i \in 1..Len(gui_joints) :
            sliders[gui_joints[i]].value = sliders[gui_joints[i]].initial

\* C5, as stated: for every reported pair, None included, the slider's
\* initial value lies in the slider's range.
C5_InitialValueInRange ==
    slider_args # None =>
        /\ slider_args[1].min <= slider_args[1].initial
        /\ slider_args[1].initial <= slider_args[1].max

\* C5, amended: the initial value lies in the slider's range whenever the
\* range is not empty, that is when lower <= upper once None is replaced.
C5_InitialValueInNonEmptyRange ==
    (slider_args # None /\ slider_args[1].min <= slider_args[1].max) =>
        /\ slider_args[1].min <= slider_args[1].initial
        /\ slider_args[1].initial <= slider_args[1].max

\* A pair with lower None and a negative upper bound: the range is not empty
\* and the initial value is the midpoint of -pi and upper.
C5_Witness ==
    /\ slider_args # None
    /\ limit_in[1] = None
    /\ limit_in[2] # None
    /\ slider_args[1].min <= slider_args[1].max
    /\ slider_args[1].initial < 0

\* C6: when update_robot_model has just completed, every slider that was in
\* gui_joints when it started has been removed exactly once and is not in
\* gui_joints, and every slider of gui_joints was created by this call and
\* is not removed.
C6_OldSlidersRemoved ==
    last.op = "update_done" =>
        /\ \A i \in 1..Len(last.start) :
               /\ sliders[last.start[i]].removed = 1
               /\ ~InGuiJoints(last.start[i])
        /\ \A i \in 1..Len(gui_joints) :
               /\ sliders[gui_joints[i]].urdf = last.urdf
               /\ sliders[gui_joints[i]].removed = 0

\* A selection has completed that found two sliders of the previous robot.
C6_Witness ==
    /\ last.op = "update_done"
    /\ Len(last.start) = 2
    /\ \A i \in 1..2 : sliders[last.start[i]].urdf # last.urdf

\* C7: when update_robot_model has just completed, the last vector given to
\* update_cfg of the new ViserUrdf is the vector of the initial angles this
\* call computed (the last entries of initial_angles), one per actuated
\* joint, and all the sliders of the new robot existed at that call.
C7_InitialAnglesApplied ==
    last.op = "update_done" =>
        LET u == last.urdf
            n == Len(JointsOf(u))
            m == Len(initial_angles)
        IN  /\ urdfs[u].applied
            /\ urdfs[u].cfg = SubSeq(initial_angles, m - n + 1, m)
            /\ urdfs[u].nSliders = n

\* A selection has completed for a robot with a joint whose initial angle is
\* not zero.
C7_Witness ==
    /\ last.op = "update_done"
    /\ \E i \in 1..Len(urdfs[last.urdf].cfg) : urdfs[last.urdf].cfg[i] # 0

\* gui_joints, the scene and the dropdown agree on ViserUrdf u, and the GUI
\* holds exactly the sliders of gui_joints.
ViewerShows(u) ==
    /\ Len(gui_joints) = Len(JointsOf(u))
    /\ \A i \in 1..Len(gui_joints) :
           /\ sliders[gui_joints[i]].urdf = u
           /\ sliders[gui_joints[i]].label = JointsOf(u)[i].name
    /\ urdfs[u].robot = dropdown
    /\ scene = {u}
    /\ \A s \in 1..Len(sliders) : InGuiJoints(s) <=> sliders[s].removed = 0

\* C8: once two overlapping executions of update_robot_model have both
\* finished, gui_joints holds the sliders of one robot, the one the dropdown
\* selects and the scene shows; no slider is left un-removed outside
\* gui_joints or removed inside it.
C8_OverlapLeavesOneRobot ==
    (Quiet /\ overlapped /\ nEvents = 2 /\ Len(urdfs) = 2) =>
        \E u \in 1..Len(urdfs) : ViewerShows(u)

\* C9: when load_robot_description or ViserUrdf has just raised, the sliders
\* of gui_joints are those of before the call and belong to a robot whose
\* meshes are in the scene.
C9_FailedLoadLeavesViewerConsistent ==
    last.op = "raised" =>
        /\ gui_joints = last.start
        /\ \A i \in 1..Len(gui_joints) : sliders[gui_joints[i]].urdf \in scene

====
